---------------------------- MODULE Spec2Model ----------------------------
(***************************************************************************)
(* Model of the wasteless front end's two React context stores:            *)
(*   - AuthProvider (frontend/src/contexts/AuthContext.tsx): the current   *)
(*     user, mirrored into localStorage under the key "wasteless_user";    *)
(*   - UIProvider (contexts/UIContext.tsx): the toast list with its        *)
(*     3000 ms auto-remove timers, and the isLoading flag;                 *)
(*   - the pages that use them: ContextDummy with its "Load Data" button   *)
(*     and its loading overlay, ToastContainer with its dismiss buttons,   *)
(*     and the routes of App.                                              *)
(*                                                                         *)
(* A provider's hook state (user, toasts, isLoading) is what setState has  *)
(* been told; the context value its consumers read (authContext,           *)
(* uiContext) is what the provider's function body computed the last time  *)
(* React rendered it.  A setState call only schedules that render.         *)
(*                                                                         *)
(* Text is a sequence of one-character strings, so that JSON.stringify,    *)
(* JSON.parse and Number.prototype.toString are computed, not assumed.     *)
(***************************************************************************)
EXTENDS Integers, Sequences, FiniteSets, Bags, TLC

VARIABLES
    mounted,       \* <App/> is mounted: both providers exist
    effectRan,     \* AuthProvider's mount effect has run
    localStorage,  \* the entry of key "wasteless_user": Absent or Item(text)
    user,          \* AuthProvider's useState: Null or a JS value
    authPending,   \* a setUser was called and AuthProvider not yet re-rendered
    authContext,   \* the value AuthContext.Provider holds: Undefined or a record
    isLoading,     \* UIProvider's useState(false)
    toasts,        \* UIProvider's useState([]): sequence of Toast
    uiPending,     \* a UI setState was called and UIProvider not yet re-rendered
    uiContext,     \* the value UIContext.Provider holds: Undefined or a record
    timers,        \* pending setTimeout callbacks of showToast: bag of [id, due]
    now,           \* Date.now(), in milliseconds
    lastAuth,      \* history: the last login/logout call, and whether a restart followed
    lastUI,        \* history: the toast call made by the last step, if any
    burst,         \* history: toasts shown since the last removal or restart
    loads,         \* pending setTimeout callbacks of handleLoadData: bag of [due]
    lastBusy,      \* history: the argument of the last setIsLoading call
    orphaned,      \* history: the pending timers whose toast was dismissed by hand
    route,         \* the path <Routes> matches
    read           \* history: what the last useAuth() or useUI() call came to

authVars == <<localStorage, user, authPending, authContext, effectRan, lastAuth>>
uiVars == <<isLoading, toasts, uiPending, uiContext, timers, lastUI, burst,
            loads, lastBusy, orphaned>>
viewVars == <<route, read>>
vars == <<mounted, now, authVars, uiVars, viewVars>>

-----------------------------------------------------------------------------
(* JS values as far as JSON produces them here: null, strings, objects.    *)

Null == [kind |-> "null"]
Undefined == [kind |-> "undefined"]
Absent == [kind |-> "absent"]
Item(text) == [kind |-> "item", text |-> text]
Str(chars) == [kind |-> "string", chars |-> chars]
Obj(members) == [kind |-> "object", members |-> members]
Member(key, val) == [key |-> key, val |-> val]

User(id, email, name) ==
    Obj(<< Member(<<"i", "d">>, Str(id)),
           Member(<<"e", "m", "a", "i", "l">>, Str(email)),
           Member(<<"n", "a", "m", "e">>, Str(name)) >>)

IsUser(v) ==
    /\ v.kind = "object"
    /\ Len(v.members) = 3
    /\ v.members[1].key = <<"i", "d">>
    /\ v.members[2].key = <<"e", "m", "a", "i", "l">>
    /\ v.members[3].key = <<"n", "a", "m", "e">>
    /\ \A i \in 1..3 : v.members[i].val.kind = "string"

(* The users login is called with; the second needs both JSON escapes.     *)
Users ==
    { User(<<"1">>, <<"a">>, <<"b">>),
      User(<<"2">>, <<"\"">>, <<"\\", "a">>),
      User(<<>>, <<>>, <<>>) }

-----------------------------------------------------------------------------
(* JSON.stringify *)

RECURSIVE QuoteChars(_)
QuoteChars(s) ==
    IF s = <<>> THEN <<>>
    ELSE (IF Head(s) \in {"\"", "\\"} THEN <<"\\", Head(s)>> ELSE <<Head(s)>>)
         \o QuoteChars(Tail(s))

Quote(s) == <<"\"">> \o QuoteChars(s) \o <<"\"">>

RECURSIVE JSONstringify(_)
RECURSIVE StringifyMembers(_)
StringifyMembers(ms) ==
    IF ms = <<>> THEN <<>>
    ELSE Quote(Head(ms).key) \o <<":">> \o JSONstringify(Head(ms).val)
         \o (IF Tail(ms) = <<>> THEN <<>> ELSE <<",">> \o StringifyMembers(Tail(ms)))

JSONstringify(v) ==
    CASE v.kind = "null" -> <<"n", "u", "l", "l">>
      [] v.kind = "string" -> Quote(v.chars)
      [] v.kind = "object" -> <<"{">> \o StringifyMembers(v.members) \o <<"}">>

-----------------------------------------------------------------------------
(* JSON.parse: a result is [ok, val, next]; ok = FALSE is a SyntaxError.   *)

SyntaxError == [ok |-> FALSE, val |-> Null, next |-> 0]
Parsed(v, n) == [ok |-> TRUE, val |-> v, next |-> n]

At(t, i) == IF i \in 1..Len(t) THEN t[i] ELSE "EOF"

RECURSIVE ScanString(_, _, _)
ScanString(t, i, acc) ==
    CASE At(t, i) = "EOF" -> SyntaxError
      [] At(t, i) = "\"" -> Parsed(acc, i + 1)
      [] At(t, i) = "\\" ->
            IF At(t, i + 1) \in {"\"", "\\"}
            THEN ScanString(t, i + 2, Append(acc, t[i + 1]))
            ELSE SyntaxError
      [] OTHER -> ScanString(t, i + 1, Append(acc, t[i]))

(* A repeated key keeps its first position and takes the last value.       *)
SetMember(ms, key, val) ==
    IF \E j \in 1..Len(ms) : ms[j].key = key
    THEN [j \in 1..Len(ms) |-> IF ms[j].key = key THEN Member(key, val) ELSE ms[j]]
    ELSE Append(ms, Member(key, val))

RECURSIVE ParseValue(_, _)
RECURSIVE ParseMembers(_, _, _)
ParseMembers(t, i, acc) ==
    IF At(t, i) # "\"" THEN SyntaxError
    ELSE LET k == ScanString(t, i + 1, <<>>) IN
         IF ~k.ok \/ At(t, k.next) # ":" THEN SyntaxError
         ELSE LET v == ParseValue(t, k.next + 1) IN
              IF ~v.ok THEN SyntaxError
              ELSE CASE At(t, v.next) = "," ->
                            ParseMembers(t, v.next + 1, SetMember(acc, k.val, v.val))
                     [] At(t, v.next) = "}" ->
                            Parsed(Obj(SetMember(acc, k.val, v.val)), v.next + 1)
                     [] OTHER -> SyntaxError

ParseValue(t, i) ==
    CASE At(t, i) = "\"" ->
            LET s == ScanString(t, i + 1, <<>>) IN
            IF s.ok THEN Parsed(Str(s.val), s.next) ELSE SyntaxError
      [] At(t, i) = "{" ->
            IF At(t, i + 1) = "}" THEN Parsed(Obj(<<>>), i + 2)
            ELSE ParseMembers(t, i + 1, <<>>)
      [] At(t, i) = "n" ->
            IF <<At(t, i + 1), At(t, i + 2), At(t, i + 3)>> = <<"u", "l", "l">>
            THEN Parsed(Null, i + 4)
            ELSE SyntaxError
      [] OTHER -> SyntaxError

JSONparse(t) ==
    LET r == ParseValue(t, 1) IN
    IF r.ok /\ r.next = Len(t) + 1 THEN r ELSE SyntaxError

-----------------------------------------------------------------------------
(* What the "wasteless_user" entry may hold when the page is first loaded: *)
(* nothing, a user an earlier session saved, or text put there by hand.    *)

InitialSlots ==
    {Absent}
    \cup { Item(JSONstringify(u)) : u \in Users }
    \cup { Item(<<>>),                               \* the empty string
           Item(<<"x">>),                            \* not JSON
           Item(<<"{", "\"", "i", "d", "\"", ":">>), \* truncated JSON
           Item(<<"n", "u", "l", "l">>),             \* JSON null
           Item(<<"\"", "a", "\"">>),                \* a JSON string
           Item(<<"{", "}">>) }                      \* an object that is no User

-----------------------------------------------------------------------------
(* AuthProvider *)

(* History of the last login or logout call, with the user it found. *)
NoCall == [op |-> "none", arg |-> Null, restarted |-> FALSE, before |-> Null]

(* isAuthenticated as "the state holds a User object". *)
isAuthenticatedIfUser(u) == IsUser(u)

(* const isAuthenticated = user !== null *)
isAuthenticated(u) == u # Null

(* const value = { user, login, logout, isAuthenticated } *)
AuthValue(u) == [kind |-> "value", user |-> u, isAuthenticated |-> isAuthenticated(u)]

(* setUser(v): React keeps v and schedules a re-render of the provider,    *)
(* unless v is the null the state already holds (Object.is bail-out).      *)
setUser(v) ==
    /\ user' = v
    /\ authPending' = (authPending \/ v # Null \/ user # Null)

(* A mount effect that parses the entry to validate it and never calls    *)
(* setUser.                                                                *)
restoreEffectValidates ==
    /\ mounted /\ ~effectRan
    /\ effectRan' = TRUE
    /\ LET savedUser == localStorage IN
       IF savedUser.kind = "item" /\ savedUser.text # <<>>
          /\ ~JSONparse(savedUser.text).ok
       THEN localStorage' = Absent
       ELSE UNCHANGED localStorage
    /\ UNCHANGED <<mounted, now, user, authPending, authContext, lastAuth, uiVars,
                   viewVars>>

(* The mount effect: useEffect(() => {...}, []) *)
restoreEffect ==
    /\ mounted /\ ~effectRan
    /\ effectRan' = TRUE
    /\ LET savedUser == localStorage IN
       IF savedUser.kind = "item" /\ savedUser.text # <<>>     \* if (savedUser)
       THEN LET r == JSONparse(savedUser.text) IN
            IF r.ok
            THEN /\ setUser(r.val)
                 /\ UNCHANGED localStorage
            ELSE /\ localStorage' = Absent                      \* catch: removeItem
                 /\ UNCHANGED <<user, authPending>>
       ELSE UNCHANGED <<localStorage, user, authPending>>
    /\ UNCHANGED <<mounted, now, authContext, lastAuth, uiVars, viewVars>>

(* login without the setUser call. *)
loginStoresOnly(userData) ==
    /\ mounted /\ effectRan
    /\ localStorage' = Item(JSONstringify(userData))
    /\ lastAuth' = [op |-> "login", arg |-> userData, restarted |-> FALSE, before |-> user]
    /\ UNCHANGED <<mounted, now, user, authPending, authContext, effectRan, uiVars, viewVars>>

(* login without the localStorage.setItem call. *)
loginSetsOnly(userData) ==
    /\ mounted /\ effectRan
    /\ setUser(userData)
    /\ lastAuth' = [op |-> "login", arg |-> userData, restarted |-> FALSE, before |-> user]
    /\ UNCHANGED <<mounted, now, localStorage, authContext, effectRan, uiVars, viewVars>>

(* login that keeps the user already logged in: setUser(prev => prev ??    *)
(* userData), and writes the entry only when there is none.                *)
loginKeepsFirst(userData) ==
    /\ mounted /\ effectRan
    /\ setUser(IF user = Null THEN userData ELSE user)
    /\ localStorage' = IF localStorage = Absent
                       THEN Item(JSONstringify(userData)) ELSE localStorage
    /\ lastAuth' = [op |-> "login", arg |-> userData, restarted |-> FALSE, before |-> user]
    /\ UNCHANGED <<mounted, now, authContext, effectRan, uiVars, viewVars>>

login(userData) ==
    /\ mounted /\ effectRan
    /\ setUser(userData)
    /\ localStorage' = Item(JSONstringify(userData))
    /\ lastAuth' = [op |-> "login", arg |-> userData, restarted |-> FALSE, before |-> user]
    /\ UNCHANGED <<mounted, now, authContext, effectRan, uiVars, viewVars>>

(* logout without the localStorage.removeItem call. *)
logoutKeepsItem ==
    /\ mounted /\ effectRan
    /\ setUser(Null)
    /\ lastAuth' = [op |-> "logout", arg |-> Null, restarted |-> FALSE, before |-> user]
    /\ UNCHANGED <<mounted, now, localStorage, authContext, effectRan, uiVars, viewVars>>

(* logout that also empties the toast list. *)
logoutClearsToasts ==
    /\ mounted /\ effectRan
    /\ setUser(Null)
    /\ localStorage' = Absent
    /\ lastAuth' = [op |-> "logout", arg |-> Null, restarted |-> FALSE, before |-> user]
    /\ toasts' = <<>>
    /\ UNCHANGED <<mounted, now, authContext, effectRan, viewVars, isLoading, uiPending,
                   uiContext, timers, lastUI, burst, loads, lastBusy, orphaned>>

logout ==
    /\ mounted /\ effectRan
    /\ setUser(Null)
    /\ localStorage' = Absent
    /\ lastAuth' = [op |-> "logout", arg |-> Null, restarted |-> FALSE, before |-> user]
    /\ UNCHANGED <<mounted, now, authContext, effectRan, uiVars, viewVars>>

(* React re-renders AuthProvider: its body runs with the current state.    *)
authRender ==
    /\ mounted /\ authPending
    /\ authContext' = AuthValue(user)
    /\ authPending' = FALSE
    /\ UNCHANGED <<mounted, now, localStorage, user, effectRan, lastAuth, uiVars, viewVars>>

-----------------------------------------------------------------------------
(* UIProvider *)

ToastDelay == 3000
MaxClock == 4000     \* Date.now() stays within 0..MaxClock
MaxMs == 1           \* single milliseconds the clock may advance within a second
MaxTimers == 3       \* pending auto-remove timers

ToastTypes == {"success", "error", "info", "warning"}
(* The (message, type) pairs showToast is called with below. *)
ShowArgs == { <<"x", "success">>, <<"y", "error">> }

Digits == <<"0", "1", "2", "3", "4", "5", "6", "7", "8", "9">>

(* Number.prototype.toString and Number() on decimal digits *)
RECURSIVE toString(_)
toString(n) ==
    IF n < 10 THEN <<Digits[n + 1]>>
    ELSE toString(n \div 10) \o <<Digits[(n % 10) + 1]>>

RECURSIVE toNumber(_)
toNumber(s) ==
    IF s = <<>> THEN 0
    ELSE 10 * toNumber(SubSeq(s, 1, Len(s) - 1))
         + (CHOOSE d \in 0..9 : Digits[d + 1] = s[Len(s)])

Toast(id, message, type) == [id |-> id, message |-> message, type |-> type]
Timer(id, due) == [id |-> id, due |-> due]

(* History of one call: "show", "dismiss" or "timer", the toasts it found,  *)
(* what it returned to its caller (showToast and removeToast have no       *)
(* return statement: undefined) and, for a timer, whether its toast had    *)
(* been dismissed by hand before.                                          *)
NoCallUI ==
    [op |-> "none", id |-> <<>>, message |-> "", type |-> "", before |-> <<>>,
     returned |-> Undefined, orphan |-> FALSE]
CallUI(op, id, message, type) ==
    [op |-> op, id |-> id, message |-> message, type |-> type, before |-> toasts,
     returned |-> Undefined, orphan |-> FALSE]

(* The pending timers whose toast is gone by a dismissal, after the        *)
(* dismissal of id: those of before and every pending timer of id.         *)
OrphanedBy(id) ==
    [t \in {x \in DOMAIN timers : x.id = id \/ x \in DOMAIN orphaned}
        |-> IF t.id = id THEN timers[t] ELSE orphaned[t]]

(* const value = { isLoading, setIsLoading, toasts, showToast, removeToast } *)
UIValue(l, ts) == [kind |-> "value", isLoading |-> l, toasts |-> ts]

(* removeToast by position: prev.splice(prev.findIndex(...), 1), where    *)
(* findIndex gives -1 for an id not in the list and splice(-1, 1) takes    *)
(* the last toast out.                                                     *)
removeToastSplice(id) ==
    /\ toasts' =
          IF toasts = <<>> THEN <<>>
          ELSE LET found == {i \in 1..Len(toasts) : toasts[i].id = id}
                   k == IF found = {} THEN Len(toasts)
                        ELSE CHOOSE i \in found : \A j \in found : i <= j
               IN SubSeq(toasts, 1, k - 1) \o SubSeq(toasts, k + 1, Len(toasts))
    /\ uiPending' = TRUE

(* setToasts((prev) => prev.filter((toast) => toast.id !== id)) *)
removeToast(id) ==
    /\ toasts' = SelectSeq(toasts, LAMBDA toast : toast.id # id)
    /\ uiPending' = TRUE

(* showToast putting the new toast first: [newToast, ...prev]. *)
showToastFirst(message, type) ==
    /\ mounted
    /\ BagCardinality(timers) < MaxTimers
    /\ now + ToastDelay <= MaxClock
    /\ LET id == toString(now)
           newToast == Toast(id, message, type)
       IN /\ toasts' = <<newToast>> \o toasts
          /\ uiPending' = TRUE
          /\ timers' = timers (+) SetToBag({Timer(id, now + ToastDelay)})
          /\ lastUI' = CallUI("show", id, message, type)
          /\ burst' = Append(burst, newToast)
    /\ UNCHANGED <<mounted, now, authVars, isLoading, uiContext,
                   loads, lastBusy, orphaned, viewVars>>

(* showToast without the functional update: setToasts([...toasts, newToast]) *)
(* with the toasts of the render the handler was created in.               *)
showToastStale(message, type) ==
    /\ mounted
    /\ BagCardinality(timers) < MaxTimers
    /\ now + ToastDelay <= MaxClock
    /\ LET id == toString(now)
           newToast == Toast(id, message, type)
       IN /\ toasts' = Append(uiContext.toasts, newToast)
          /\ uiPending' = TRUE
          /\ timers' = timers (+) SetToBag({Timer(id, now + ToastDelay)})
          /\ lastUI' = CallUI("show", id, message, type)
          /\ burst' = Append(burst, newToast)
    /\ UNCHANGED <<mounted, now, authVars, isLoading, uiContext,
                   loads, lastBusy, orphaned, viewVars>>

(* showToast without the setTimeout call. *)
showToastNoTimer(message, type) ==
    /\ mounted
    /\ Len(toasts) < MaxTimers
    /\ now + ToastDelay <= MaxClock
    /\ LET id == toString(now)
           newToast == Toast(id, message, type)
       IN /\ toasts' = Append(toasts, newToast)
          /\ uiPending' = TRUE
          /\ lastUI' = CallUI("show", id, message, type)
          /\ burst' = Append(burst, newToast)
    /\ UNCHANGED <<mounted, now, authVars, isLoading, uiContext, timers,
                   loads, lastBusy, orphaned, viewVars>>

(* showToast keeping one timeout handle: clearTimeout of the pending timer *)
(* before the new setTimeout.                                              *)
showToastOneTimer(message, type) ==
    /\ mounted
    /\ Len(toasts) < MaxTimers
    /\ now + ToastDelay <= MaxClock
    /\ LET id == toString(now)
           newToast == Toast(id, message, type)
       IN /\ toasts' = Append(toasts, newToast)
          /\ uiPending' = TRUE
          /\ timers' = SetToBag({Timer(id, now + ToastDelay)})
          /\ lastUI' = CallUI("show", id, message, type)
          /\ burst' = Append(burst, newToast)
    /\ orphaned' = EmptyBag
    /\ UNCHANGED <<mounted, now, authVars, isLoading, uiContext,
                   loads, lastBusy, viewVars>>

(* showToast ending in "return id". *)
showToastReturnsId(message, type) ==
    /\ mounted
    /\ BagCardinality(timers) < MaxTimers
    /\ now + ToastDelay <= MaxClock
    /\ LET id == toString(now)
           newToast == Toast(id, message, type)
       IN /\ toasts' = Append(toasts, newToast)
          /\ uiPending' = TRUE
          /\ timers' = timers (+) SetToBag({Timer(id, now + ToastDelay)})
          /\ lastUI' = [CallUI("show", id, message, type) EXCEPT !.returned = Str(id)]
          /\ burst' = Append(burst, newToast)
    /\ UNCHANGED <<mounted, now, authVars, isLoading, uiContext,
                   loads, lastBusy, orphaned, viewVars>>

showToast(message, type) ==
    /\ mounted
    /\ BagCardinality(timers) < MaxTimers
    /\ now + ToastDelay <= MaxClock
    /\ LET id == toString(now)
           newToast == Toast(id, message, type)
       IN /\ toasts' = Append(toasts, newToast)     \* (prev) => [...prev, newToast]
          /\ uiPending' = TRUE
          /\ timers' = timers (+) SetToBag({Timer(id, now + ToastDelay)})
          /\ lastUI' = CallUI("show", id, message, type)
          /\ burst' = Append(burst, newToast)
    /\ UNCHANGED <<mounted, now, authVars, isLoading, uiContext,
                   loads, lastBusy, orphaned, viewVars>>

(* A call of a showToast whose parameter has no default: the toast gets    *)
(* the type undefined, which getAlertClass and the class name spell out.   *)
showToastCallNoDefault(args) ==
    showToast(args[1], IF Len(args) >= 2 THEN args[2] ELSE "undefined")

(* showToast called with the argument list args: the parameter            *)
(* type: Toast["type"] = "info" takes its default when args has no second  *)
(* element.                                                                *)
showToastCall(args) ==
    showToast(args[1], IF Len(args) >= 2 THEN args[2] ELSE "info")

(* ToastContainer: const { toasts, removeToast } = useUI(), one dismiss     *)
(* button per toast of the rendered list.                                  *)
shownToasts == IF uiContext.kind = "value" THEN uiContext.toasts ELSE <<>>

(* The user clicks the dismiss button of a toast (ToastContainer).  A click *)
(* is an event of its own: the render of the event before it is done.      *)
dismiss(id) ==
    /\ mounted /\ ~uiPending
    /\ removeToast(id)
    /\ lastUI' = CallUI("dismiss", id, "", "")
    /\ burst' = <<>>
    /\ orphaned' = IF \E i \in 1..Len(toasts) : toasts[i].id = id
                   THEN OrphanedBy(id) ELSE orphaned
    /\ UNCHANGED <<mounted, now, authVars, isLoading, uiContext, timers,
                   loads, lastBusy, viewVars>>

(* A timer that also ends the loading state: an automatic timeout of the   *)
(* flag.                                                                   *)
timerFiresClearsLoading(t) ==
    /\ mounted /\ ~uiPending
    /\ BagIn(t, timers)
    /\ now >= t.due
    /\ removeToast(t.id)
    /\ isLoading' = FALSE
    /\ timers' = timers (-) SetToBag({t})
    /\ lastUI' = [CallUI("timer", t.id, "", "") EXCEPT !.orphan = BagIn(t, orphaned)]
    /\ burst' = <<>>
    /\ orphaned' = orphaned (-) SetToBag({t})
    /\ UNCHANGED <<mounted, now, authVars, uiContext, loads, lastBusy, viewVars>>

(* A timer set by showToast fires: setTimeout(() => removeToast(id), 3000) *)
timerFires(t) ==
    /\ mounted /\ ~uiPending
    /\ BagIn(t, timers)
    /\ now >= t.due
    /\ removeToast(t.id)
    /\ timers' = timers (-) SetToBag({t})
    /\ lastUI' = [CallUI("timer", t.id, "", "") EXCEPT !.orphan = BagIn(t, orphaned)]
    /\ burst' = <<>>
    /\ orphaned' = orphaned (-) SetToBag({t})
    /\ UNCHANGED <<mounted, now, authVars, isLoading, uiContext,
                   loads, lastBusy, viewVars>>

(* A flag that counts: it stays true while another load is outstanding.   *)
setIsLoadingCounted(loading) ==
    /\ isLoading' = (loading \/ BagCardinality(loads) > 1)
    /\ lastBusy' = loading

(* The setter of const [isLoading, setIsLoading] = useState(false) *)
setIsLoading(loading) ==
    /\ isLoading' = loading
    /\ lastBusy' = loading

(* A consumer calls setIsLoading(loading) and nothing else: React          *)
(* re-renders UIProvider unless the flag has that value already.           *)
callSetIsLoading(loading) ==
    /\ mounted
    /\ setIsLoading(loading)
    /\ uiPending' = (uiPending \/ isLoading # loading)
    /\ lastUI' = NoCallUI
    /\ UNCHANGED <<mounted, now, authVars, toasts, uiContext, timers, burst,
                   loads, orphaned, viewVars>>

LoadDelay == 2000
MaxLoads == 2        \* pending timeouts of handleLoadData
LoadingMessage == "Loading data..."
LoadedMessage == "Data loaded successfully!"
Load(due) == [due |-> due]

(* ContextDummy's "Load Data" button is clicked: the page is /contextTest. *)
(* The toast is showToast's: id, functional append, 3000 ms timer.         *)
handleLoadData ==
    /\ mounted /\ ~uiPending
    /\ route = "/contextTest"
    /\ BagCardinality(loads) < MaxLoads
    /\ now + LoadDelay <= MaxClock
    /\ setIsLoading(TRUE)
    /\ LET id == toString(now)
           newToast == Toast(id, LoadingMessage, "info")
       IN /\ toasts' = Append(toasts, newToast)
          /\ uiPending' = TRUE
          /\ timers' = timers (+) SetToBag({Timer(id, now + ToastDelay)})
          /\ lastUI' = CallUI("show", id, LoadingMessage, "info")
          /\ burst' = Append(burst, newToast)
    /\ loads' = loads (+) SetToBag({Load(now + LoadDelay)})
    /\ UNCHANGED <<mounted, now, authVars, uiContext, orphaned, viewVars>>

(* The timeout's callback without its setIsLoading(false). *)
loadDoneKeepsLoading(l) ==
    /\ mounted /\ ~uiPending
    /\ BagIn(l, loads)
    /\ now >= l.due
    /\ LET id == toString(now)
           newToast == Toast(id, LoadedMessage, "success")
       IN /\ toasts' = Append(toasts, newToast)
          /\ uiPending' = TRUE
          /\ timers' = timers (+) SetToBag({Timer(id, now + ToastDelay)})
          /\ lastUI' = CallUI("show", id, LoadedMessage, "success")
          /\ burst' = Append(burst, newToast)
    /\ loads' = loads (-) SetToBag({l})
    /\ UNCHANGED <<mounted, now, authVars, isLoading, lastBusy, uiContext, orphaned,
                   viewVars>>

(* The timeout of handleLoadData fires: setIsLoading(false) and            *)
(* showToast("Data loaded successfully!", "success").                      *)
loadDone(l) ==
    /\ mounted /\ ~uiPending
    /\ BagIn(l, loads)
    /\ now >= l.due
    /\ setIsLoading(FALSE)
    /\ LET id == toString(now)
           newToast == Toast(id, LoadedMessage, "success")
       IN /\ toasts' = Append(toasts, newToast)
          /\ uiPending' = TRUE
          /\ timers' = timers (+) SetToBag({Timer(id, now + ToastDelay)})
          /\ lastUI' = CallUI("show", id, LoadedMessage, "success")
          /\ burst' = Append(burst, newToast)
    /\ loads' = loads (-) SetToBag({l})
    /\ UNCHANGED <<mounted, now, authVars, uiContext, orphaned, viewVars>>

(* React re-renders UIProvider: its body runs with the current state.      *)
uiRender ==
    /\ mounted /\ uiPending
    /\ uiContext' = UIValue(isLoading, toasts)
    /\ uiPending' = FALSE
    /\ lastUI' = NoCallUI
    /\ UNCHANGED <<mounted, now, authVars, isLoading, toasts, timers, burst,
                   loads, lastBusy, orphaned, viewVars>>

-----------------------------------------------------------------------------
(* The page *)

(* <App/> is rendered for the first time: useState(null), useState(false), *)
(* useState([]), and each provider's value computed from them.             *)
Mount ==
    /\ ~mounted
    /\ mounted' = TRUE
    /\ effectRan' = FALSE
    /\ user' = Null
    /\ authPending' = FALSE
    /\ authContext' = AuthValue(Null)
    /\ isLoading' = FALSE
    /\ toasts' = <<>>
    /\ uiPending' = FALSE
    /\ uiContext' = UIValue(FALSE, <<>>)
    /\ timers' = EmptyBag
    /\ loads' = EmptyBag
    /\ UNCHANGED <<now, localStorage, lastAuth, lastUI, burst, lastBusy, orphaned,
                   viewVars>>

(* The page is closed or reloaded: what is in memory is lost, timers       *)
(* included; localStorage stays.                                           *)
Restart ==
    /\ mounted
    /\ mounted' = FALSE
    /\ effectRan' = FALSE
    /\ user' = Null
    /\ authPending' = FALSE
    /\ authContext' = Undefined
    /\ isLoading' = FALSE
    /\ toasts' = <<>>
    /\ uiPending' = FALSE
    /\ uiContext' = Undefined
    /\ timers' = EmptyBag
    /\ lastAuth' = [lastAuth EXCEPT !.restarted = TRUE]
    /\ lastUI' = NoCallUI
    /\ burst' = <<>>
    /\ loads' = EmptyBag
    /\ lastBusy' = FALSE
    /\ orphaned' = EmptyBag
    /\ UNCHANGED <<now, localStorage, viewVars>>

(* The values Date.now() takes: at most MaxMs milliseconds into a second.  *)
ClockValues == { n \in 0..MaxClock : n % 1000 <= MaxMs }
NextSecond(n) == (n \div 1000 + 1) * 1000

(* Time passes, to the next millisecond or to the next full second, between *)
(* two events: an event handler and the render after it take no time.      *)
tick(next) ==
    /\ ~authPending /\ ~uiPending
    /\ next \in ClockValues
    /\ now' = next
    /\ lastUI' = NoCallUI
    /\ UNCHANGED <<mounted, authVars, isLoading, toasts, uiPending, uiContext, timers,
                   burst, loads, lastBusy, orphaned, viewVars>>

(* <Routes>: "/" is Home, "/dashboard" Dashboard, "/contextTest"          *)
(* ContextDummy.                                                           *)
Paths == {"/", "/dashboard", "/contextTest"}

(* A link is followed or the history is walked: the router shows another   *)
(* page, the providers stay mounted.                                       *)
navigate(path) ==
    /\ mounted
    /\ path # route
    /\ route' = path
    /\ lastUI' = NoCallUI
    /\ UNCHANGED <<mounted, now, authVars, isLoading, toasts, uiPending, uiContext,
                   timers, burst, loads, lastBusy, orphaned, read>>

(* The overlay as a part of <App/>, next to <ToastContainer/>: on every    *)
(* page.                                                                   *)
overlayOnEveryPage == mounted /\ uiContext.isLoading

(* {isLoading && <div className="fixed inset-0 ...">}: a part of what       *)
(* ContextDummy renders, with the isLoading its useUI() call gave.         *)
overlayShown == mounted /\ route = "/contextTest" /\ uiContext.isLoading

(* throw new Error(message) *)
Error(message) == [kind |-> "error", message |-> message]

(* useAuth over a context created with a default: createContext({user:    *)
(* null, isAuthenticated: false, ...}).                                    *)
useAuthDefault(context) ==
    IF context = Undefined THEN AuthValue(Null) ELSE context

(* useAuth(), given what useContext(AuthContext) returns: the value of the *)
(* provider around the caller, or createContext's undefined.               *)
useAuth(context) ==
    IF context = Undefined
    THEN Error("useAuth must be used within an AuthProvider")
    ELSE context

(* useUI(), given what useContext(UIContext) returns. *)
useUI(context) ==
    IF context = Undefined
    THEN Error("useUI must be used within a UIProvider")
    ELSE context

(* No useAuth() or useUI() call yet. *)
NoRead == [hook |-> "none", active |-> FALSE, result |-> Undefined]

Hooks == {"useAuth", "useUI"}

(* A component is rendered and calls the hook: inside the providers when   *)
(* <App/> is mounted, with no provider around it otherwise.                *)
consumerReads(hook) ==
    /\ read' = [hook |-> hook, active |-> mounted,
                result |-> IF hook = "useAuth" THEN useAuth(authContext)
                                               ELSE useUI(uiContext)]
    /\ UNCHANGED <<mounted, now, authVars, uiVars, route>>

(* The ids showToast can give within the clock's range. *)
AllIds == { toString(n) : n \in { c \in ClockValues : c + ToastDelay <= MaxClock } }

Init ==
    /\ mounted = FALSE
    /\ effectRan = FALSE
    /\ localStorage \in InitialSlots
    /\ user = Null
    /\ authPending = FALSE
    /\ authContext = Undefined
    /\ isLoading = FALSE
    /\ toasts = <<>>
    /\ uiPending = FALSE
    /\ uiContext = Undefined
    /\ timers = EmptyBag
    /\ now = 0
    /\ lastAuth = NoCall
    /\ lastUI = NoCallUI
    /\ burst = <<>>
    /\ loads = EmptyBag
    /\ lastBusy = FALSE
    /\ orphaned = EmptyBag
    /\ route \in Paths
    /\ read = NoRead

AuthNext ==
    \/ Mount
    \/ restoreEffect
    \/ \E userData \in Users : login(userData)
    \/ logout
    \/ authRender
    \/ Restart

(* What happens to the toast list, for the given showToast arguments. *)
ToastNext(args) ==
    \/ Mount
    \/ \E a \in args : showToast(a[1], a[2])
    \/ \E i \in 1..Len(shownToasts) : dismiss(shownToasts[i].id)
    \/ \E t \in BagToSet(timers) : timerFires(t)
    \/ uiRender
    \/ \E next \in {now + 1, NextSecond(now)} : tick(next)
    \/ Restart

UINext == ToastNext(ShowArgs)

BusyNext == \E loading \in BOOLEAN : callSetIsLoading(loading)

(* The session store alone. *)
SpecAuth == Init /\ [][AuthNext]_vars

(* The session store and the components that read the two contexts. *)
ScopeNext ==
    \/ AuthNext
    \/ \E hook \in Hooks : consumerReads(hook)
SpecScope == Init /\ [][ScopeNext]_vars

(* The toast list alone, on a page with nothing saved. *)
InitUI == Init /\ localStorage = Absent /\ route = "/"
SpecUI == InitUI /\ [][UINext]_vars

(* The toast list with time passing and due timers being run.  The clock   *)
(* does not stop, and the event loop runs a due timer's callback once the  *)
(* handlers and renders before it are done: both are strongly fair, being  *)
(* disabled only while a render is pending, and React does render a        *)
(* provider whose state was set.  One showToast argument is enough here:   *)
(* no action reads a toast's message or type.                              *)
ExpiryNext == ToastNext({<<"x", "success">>})
SpecExpiry ==
    /\ InitUI
    /\ [][ExpiryNext]_vars
    /\ WF_vars(uiRender)
    /\ SF_vars(\E next \in {now + 1, NextSecond(now)} : tick(next))
    /\ SF_vars(\E t \in BagToSet(timers) : timerFires(t))

(* The toast list with showToast called with each of the four types, and   *)
(* with a message only: NoTypeMessage is the message of that call and of   *)
(* no other.  Time passes here in whole seconds.                           *)
NoTypeMessage == "m"
CallArgs ==
    { <<NoTypeMessage>>,
      <<"s", "success">>, <<"e", "error">>, <<"w", "warning">>, <<"i", "info">> }
SeverityNext ==
    \/ Mount
    \/ \E args \in CallArgs : showToastCall(args)
    \/ \E i \in 1..Len(shownToasts) : dismiss(shownToasts[i].id)
    \/ \E t \in BagToSet(timers) : timerFires(t)
    \/ uiRender
    \/ tick(NextSecond(now))
    \/ Restart
SpecSeverity == InitUI /\ [][SeverityNext]_vars

(* The toast list with removeToast called by any consumer, with the id of   *)
(* a toast in the list, of one that was, or of none.                       *)
NoId == <<"n", "o">>
RemoveIds == AllIds \cup {NoId}
CallNext ==
    \/ ExpiryNext
    \/ \E id \in RemoveIds : dismiss(id)
SpecCalls == InitUI /\ [][CallNext]_vars

(* The ContextDummy page's "Load Data" button, with the toasts it shows.   *)
(* Time passes here in whole seconds, and nobody dismisses a toast: the    *)
(* toasts go when their timers fire.                                       *)
LoadNext ==
    \/ Mount
    \/ handleLoadData
    \/ \E l \in BagToSet(loads) : loadDone(l)
    \/ \E t \in BagToSet(timers) : timerFires(t)
    \/ uiRender
    \/ tick(NextSecond(now))
    \/ Restart
InitLoad == Init /\ localStorage = Absent /\ route = "/contextTest"
SpecLoad == InitLoad /\ [][LoadNext]_vars

(* The same with the clock going on and the event loop running the due     *)
(* timeouts of handleLoadData and rendering, as in SpecExpiry.             *)
SpecLoadFair ==
    /\ InitLoad
    /\ [][LoadNext]_vars
    /\ WF_vars(uiRender)
    /\ SF_vars(tick(NextSecond(now)))
    /\ SF_vars(\E l \in BagToSet(loads) : loadDone(l))

(* The three pages, with the "Load Data" button of ContextDummy. *)
ViewNext ==
    \/ LoadNext
    \/ \E path \in Paths : navigate(path)
InitView == Init /\ localStorage = Absent
SpecView == InitView /\ [][ViewNext]_vars

(* Both stores on one page, first loaded with nothing saved or with text   *)
(* that is not JSON: the session store's operations for one user, one      *)
(* showToast call, the dismiss buttons, the timers and setIsLoading.  Time *)
(* passes in whole seconds.                                                *)
FrameUser == User(<<"1">>, <<"a">>, <<"b">>)
FrameNext ==
    \/ Mount
    \/ restoreEffect
    \/ login(FrameUser)
    \/ logout
    \/ authRender
    \/ showToast("x", "success")
    \/ \E i \in 1..Len(shownToasts) : dismiss(shownToasts[i].id)
    \/ \E t \in BagToSet(timers) : timerFires(t)
    \/ \E loading \in BOOLEAN : callSetIsLoading(loading)
    \/ uiRender
    \/ tick(NextSecond(now))
    \/ Restart
InitFrame ==
    /\ Init
    /\ route = "/contextTest"
    /\ localStorage \in {Absent, Item(<<"x">>)}
SpecFrame == InitFrame /\ [][FrameNext]_vars

(* Everything that can happen. *)
Next ==
    \/ AuthNext
    \/ UINext
    \/ BusyNext
    \/ ScopeNext
    \/ SeverityNext
    \/ CallNext
    \/ ViewNext
    \/ FrameNext

Spec == Init /\ [][Next]_vars

-----------------------------------------------------------------------------
(* Session store: login, logout, restore *)

LoggedIn == lastAuth.op = "login" /\ ~lastAuth.restarted
Initialized == mounted /\ effectRan

(* C1, as stated: after login(u), the state is u and isAuthenticated, and  *)
(* the consumers of the context read u from the moment login has returned. *)
C1_LoginVisibleOnReturn ==
    LoggedIn =>
        /\ user = lastAuth.arg
        /\ authContext = AuthValue(lastAuth.arg)
        /\ authContext.isAuthenticated

(* C1, amended: after login(u), for every User u, the state is u, so that  *)
(* isAuthenticated is true of it; the consumers of the context read u and  *)
(* isAuthenticated = true once AuthProvider has been re-rendered, not      *)
(* before.                                                                 *)
C1_LoginThenRender ==
    LoggedIn =>
        /\ user = lastAuth.arg
        /\ isAuthenticated(user)
        /\ ~authPending =>
              /\ authContext.user = lastAuth.arg
              /\ authContext.isAuthenticated

C1_Witness ==
    /\ LoggedIn
    /\ ~authPending
    /\ authContext = AuthValue(lastAuth.arg)
    /\ lastAuth.arg = User(<<"2">>, <<"\"">>, <<"\\", "a">>)

(* What the entry of localStorage says the user is: Null when it is absent. *)
Saved(entry) ==
    IF entry.kind = "absent" THEN Parsed(Null, 0) ELSE JSONparse(entry.text)

(* C2: once the store is initialized and rendered, the user is non-null    *)
(* exactly when localStorage holds the entry, and the entry parses to the  *)
(* user, in the state and in what the consumers read.                      *)
C2_StateAndSlotAgree ==
    (Initialized /\ ~authPending) =>
        /\ (user # Null) <=> (localStorage # Absent)
        /\ Saved(localStorage).ok
        /\ Saved(localStorage).val = user
        /\ authContext.user = user

(* C3: after logout, the user is null, isAuthenticated is false and the    *)
(* entry is gone, also after a restart and a new initialization; the       *)
(* consumers read that once rendered.                                      *)
C3_LogoutClears ==
    lastAuth.op = "logout" =>
        /\ user = Null
        /\ ~isAuthenticated(user)
        /\ localStorage = Absent
        /\ (mounted /\ ~authPending) => authContext = AuthValue(Null)

C3_Witness ==
    /\ lastAuth.op = "logout"
    /\ lastAuth.restarted
    /\ Initialized
    /\ localStorage = Absent
    /\ authContext = AuthValue(Null)

(* C4: when login(u) was the last login or logout before a restart, then   *)
(* once the mount effect of the restarted page has run, the user is u and  *)
(* isAuthenticated is true of it; the consumers read that once rendered.   *)
C4_RestartRestores ==
    (lastAuth.op = "login" /\ lastAuth.restarted /\ Initialized) =>
        /\ user = lastAuth.arg
        /\ isAuthenticated(user)
        /\ ~authPending => authContext = AuthValue(lastAuth.arg)

C4_Witness ==
    /\ lastAuth.op = "login"
    /\ lastAuth.restarted
    /\ Initialized
    /\ ~authPending
    /\ authContext.user = User(<<"2">>, <<"\"">>, <<"\\", "a">>)
    /\ authContext.isAuthenticated

(* C5: the mount effect, finding an entry whose text JSON.parse rejects,   *)
(* leaves the user null and removes the entry.                             *)
C5_CorruptEntryRemoved ==
    [][ (restoreEffect /\ localStorage.kind = "item"
                       /\ ~JSONparse(localStorage.text).ok)
        => (user' = Null /\ localStorage' = Absent) ]_vars

(* C6: in the value the consumers read, isAuthenticated is true exactly    *)
(* when user is not null, whatever the mount effect restored.              *)
C6_FlagFollowsUser ==
    authContext.kind = "value" =>
        (authContext.isAuthenticated <=> authContext.user # Null)

C6_Witness ==
    /\ authContext.kind = "value"
    /\ authContext.isAuthenticated
    /\ authContext.user = Str(<<"a">>)
    /\ lastAuth = NoCall

-----------------------------------------------------------------------------
(* Notification store: showToast and the auto-remove timers *)

HasToast(id) == \E i \in 1..Len(toasts) : toasts[i].id = id

(* C7: right after showToast(message, type) the list is the list the call  *)
(* found, unchanged, followed by one toast with that message and type; the *)
(* list is always in the order of creation, oldest first.                  *)
C7_ShowAppendsOne ==
    /\ lastUI.op = "show" =>
          /\ Len(toasts) = Len(lastUI.before) + 1
          /\ SubSeq(toasts, 1, Len(lastUI.before)) = lastUI.before
          /\ toasts[Len(toasts)].message = lastUI.message
          /\ toasts[Len(toasts)].type = lastUI.type
    /\ \A i, j \in 1..Len(toasts) :
          i < j => toNumber(toasts[i].id) <= toNumber(toasts[j].id)

C7_Witness ==
    /\ lastUI.op = "show"
    /\ Len(lastUI.before) = 2
    /\ lastUI.before[1].type = "success"
    /\ toasts[3] = Toast(toString(now), "y", "error")
    /\ toasts[2].id # toasts[3].id

(* C8: a timer removes nothing before its 3000 ms have passed, and every   *)
(* toast in the list is out of the list at some later time, whether or not *)
(* anybody dismisses it, whatever is shown or dismissed meanwhile.         *)
C8_ExpiryRemoves ==
    /\ [](lastUI.op = "timer" => now >= toNumber(lastUI.id) + ToastDelay)
    /\ \A id \in AllIds : HasToast(id) ~> ~HasToast(id)

(* A timer has just removed its toast, not dismissed before, from a list   *)
(* that holds a younger toast.                                             *)
C8_Witness ==
    /\ lastUI.op = "timer"
    /\ Len(lastUI.before) = 2
    /\ lastUI.before[1].id = lastUI.id
    /\ Len(toasts) = 1
    /\ ~HasToast(lastUI.id)

(* C9: the toasts shown one after the other, with no removal between,      *)
(* have ids that differ from one another.                                  *)
C9_DistinctIds ==
    \A i, j \in 1..Len(burst) : i # j => burst[i].id # burst[j].id

(* C10: the toasts shown one after the other, with no removal between, are *)
(* the end of the list, all of them and in the order of the calls.         *)
C10_BurstAllPresent ==
    /\ Len(burst) <= Len(toasts)
    /\ SubSeq(toasts, Len(toasts) - Len(burst) + 1, Len(toasts)) = burst

(* Three calls in one handler and one millisecond, not yet rendered. *)
C10_Witness ==
    /\ Len(burst) = 3
    /\ toasts = burst
    /\ burst[1].id = burst[3].id
    /\ uiPending
    /\ shownToasts = <<>>

-----------------------------------------------------------------------------
(* Notification store: what the calls give back and leave behind *)

(* C11, as stated: showToast returns to its caller the id of the toast it  *)
(* appended.                                                               *)
C11_ShowReturnsId ==
    lastUI.op = "show" =>
        /\ lastUI.returned = Str(lastUI.id)
        /\ toasts[Len(toasts)].id = lastUI.id

(* C11, amended: showToast returns nothing (undefined) to its caller; the  *)
(* id it gave, Date.now() in decimal, is the id of the last toast of the   *)
(* list and of a pending timer.                                            *)
C11_ShowReturnsNothing ==
    lastUI.op = "show" =>
        /\ lastUI.returned = Undefined
        /\ lastUI.id = toString(now)
        /\ toasts[Len(toasts)].id = lastUI.id
        /\ BagIn(Timer(lastUI.id, now + ToastDelay), timers)

C11_Witness ==
    /\ lastUI.op = "show"
    /\ lastUI.returned = Undefined
    /\ Len(toasts) = 2
    /\ toasts[1].id = <<"0">>
    /\ toasts[2].id = <<"1", "0", "0", "0">>
    /\ lastUI.id = <<"1", "0", "0", "0">>

(* The toasts of the list the last call found that have the call's id. *)
FoundBefore == { i \in 1..Len(lastUI.before) : lastUI.before[i].id = lastUI.id }

(* C12: after removeToast(id) no toast of the list has that id and the     *)
(* list has grown by nothing; called with an id that no toast of the list  *)
(* has, for the second time or for the first, it returns (undefined) and   *)
(* the list is the list it found.                                          *)
C12_DismissIdempotent ==
    lastUI.op = "dismiss" =>
        /\ ~HasToast(lastUI.id)
        /\ Len(toasts) = Len(lastUI.before) - Cardinality(FoundBefore)
        /\ lastUI.returned = Undefined
        /\ FoundBefore = {} => toasts = lastUI.before

(* removeToast called again with the id of a toast dismissed before (its   *)
(* timer still pending), on a list that holds another toast.               *)
C12_Witness ==
    /\ lastUI.op = "dismiss"
    /\ FoundBefore = {}
    /\ \E t \in BagToSet(orphaned) : t.id = lastUI.id
    /\ Len(toasts) = 1
    /\ toasts = lastUI.before

(* C13: a timer whose toast was dismissed by hand stays pending, and when  *)
(* it fires the list is the list it found: no toast is removed.            *)
C13_LateTimerNoOp ==
    /\ \A t \in BagToSet(orphaned) : BagIn(t, timers)
    /\ (lastUI.op = "timer" /\ lastUI.orphan) => toasts = lastUI.before

-----------------------------------------------------------------------------
(* Notification store: the isLoading flag *)

(* C14: isLoading is the argument of the last setIsLoading call, false     *)
(* when there was none; when a load is done the flag is false, whether or  *)
(* not another load is still outstanding.                                  *)
C14_FlagIsLastArgument ==
    /\ isLoading = lastBusy
    /\ (lastUI.op = "show" /\ lastUI.message = LoadedMessage) => ~isLoading

(* Two loads were started, one is done and the other is not. *)
C14_Witness ==
    /\ lastUI.op = "show"
    /\ lastUI.message = LoadedMessage
    /\ BagCardinality(loads) = 1
    /\ ~isLoading
    /\ uiContext.isLoading

(* The timeouts handleLoadData can set within the clock's range. *)
AllLoads == { Load(c + LoadDelay) : c \in { n \in ClockValues : n + LoadDelay <= MaxClock } }

(* C20: a click on "Load Data" leaves the flag true and an info toast at   *)
(* the end of the list; the flag is true only while a load is outstanding; *)
(* every load started is done at some later time on the page it was        *)
(* started on, not before its 2000 ms, and that step sets the flag to      *)
(* false and appends a success toast.                                      *)
C20_LoadCompletes ==
    /\ [](/\ (lastUI.op = "show" /\ lastUI.message = LoadingMessage) =>
                /\ isLoading
                /\ toasts = Append(lastUI.before, Toast(lastUI.id, LoadingMessage, "info"))
          /\ isLoading => loads # EmptyBag)
    /\ [][ (mounted' /\ BagCardinality(loads') < BagCardinality(loads)) =>
              /\ \E l \in BagToSet(loads) : now >= l.due
              /\ ~isLoading'
              /\ toasts' = Append(toasts, Toast(toString(now), LoadedMessage, "success")) ]_vars
    /\ \A l \in AllLoads : BagIn(l, loads) ~> ~BagIn(l, loads)

(* A load is done and none is outstanding: the flag the consumers still    *)
(* read as true is false in the store.                                     *)
C20_Witness ==
    /\ lastUI.op = "show"
    /\ lastUI.message = LoadedMessage
    /\ loads = EmptyBag
    /\ ~isLoading
    /\ uiContext.isLoading
    /\ Len(toasts) = 2
    /\ toasts[1].message = LoadingMessage

(* C16: the toast appended by a showToast call that gives no type has the  *)
(* type "info"; every toast in the list, and every toast the consumers     *)
(* read, has one of the four types.                                        *)
C16_SeverityClosed ==
    /\ (lastUI.op = "show" /\ lastUI.message = NoTypeMessage) =>
          toasts[Len(toasts)] = Toast(lastUI.id, NoTypeMessage, "info")
    /\ \A i \in 1..Len(toasts) : toasts[i].type \in ToastTypes
    /\ \A i \in 1..Len(shownToasts) : shownToasts[i].type \in ToastTypes

(* A call without a type, after calls with other types. *)
C16_Witness ==
    /\ lastUI.op = "show"
    /\ lastUI.message = NoTypeMessage
    /\ Len(toasts) = 3
    /\ toasts[1].type = "warning"
    /\ toasts[2].type = "error"
    /\ toasts[3].type = "info"

-----------------------------------------------------------------------------
(* Both stores: their consumers, their frames, the page *)

(* C15: useAuth() and useUI(), called while <App/> is not mounted, throw:  *)
(* the caller gets no value, neither the one of a store just created nor   *)
(* any other.                                                              *)
C15_OutsideProviderThrows ==
    (read.hook # "none" /\ ~read.active) =>
        /\ read.result.kind = "error"
        /\ read.result # AuthValue(Null)
        /\ read.result # UIValue(FALSE, <<>>)

(* useAuth() is called after the page of a logged-in user was closed. *)
C15_Witness ==
    /\ read.hook = "useAuth"
    /\ ~read.active
    /\ read.result = Error("useAuth must be used within an AuthProvider")
    /\ lastAuth.op = "login"
    /\ lastAuth.restarted
    /\ ~mounted

(* The steps of the toast list: a showToast call, a dismissal, a timer. *)
ToastStep ==
    \/ showToast("x", "success")
    \/ \E id \in AllIds : dismiss(id)
    \/ \E t \in BagToSet(timers) : timerFires(t)

(* C17: showToast, a dismissal, a timer, login, logout and the mount       *)
(* effect leave isLoading as it is; while the page stays open, a step      *)
(* that changes isLoading is a setIsLoading call with the new value, so    *)
(* that a flag that is true stays true until setIsLoading(false).          *)
C17_OnlySetIsLoading ==
    [][ /\ (ToastStep \/ login(FrameUser) \/ logout \/ restoreEffect)
              => isLoading' = isLoading
        /\ (isLoading' # isLoading /\ mounted')
              => callSetIsLoading(isLoading') ]_vars

(* A toast's timer has fired, a user is logged in, and the flag set        *)
(* before is still true.                                                   *)
C17_Witness ==
    /\ isLoading
    /\ lastUI.op = "timer"
    /\ Len(lastUI.before) = 1
    /\ toasts = <<>>
    /\ lastAuth.op = "login"
    /\ ~lastAuth.restarted

(* C18: the entry of localStorage is set only by login and removed only    *)
(* by logout or by the mount effect finding text that JSON.parse rejects;  *)
(* the mount effect, the only reader, runs once per page load; the user    *)
(* changes only by login, logout and the mount effect; the steps of the    *)
(* toast list and setIsLoading leave the entry and the user as they are;   *)
(* login and logout leave the toast list and isLoading as they are.        *)
C18_StoresApart ==
    [][ /\ (localStorage' # localStorage /\ localStorage'.kind = "item")
              => login(FrameUser)
        /\ (localStorage' # localStorage /\ localStorage' = Absent)
              => \/ logout
                 \/ restoreEffect /\ ~JSONparse(localStorage.text).ok
        /\ restoreEffect => (~effectRan /\ effectRan')
        /\ (effectRan /\ mounted') => effectRan'
        /\ (user' # user /\ mounted')
              => (login(FrameUser) \/ logout \/ restoreEffect)
        /\ (ToastStep \/ \E loading \in BOOLEAN : callSetIsLoading(loading))
              => UNCHANGED <<localStorage, user>>
        /\ (login(FrameUser) \/ logout)
              => UNCHANGED <<toasts, isLoading>> ]_vars

(* logout on a page that shows a toast and is loading. *)
C18_Witness ==
    /\ lastAuth.op = "logout"
    /\ ~lastAuth.restarted
    /\ localStorage = Absent
    /\ user = Null
    /\ Len(toasts) = 1
    /\ isLoading
    /\ now = 0

(* C19, as stated: the overlay is displayed exactly when isLoading is      *)
(* true, on every page.                                                    *)
C19_OverlayIffLoading == overlayShown <=> isLoading

(* C19, amended: the overlay is displayed only on /contextTest; there,     *)
(* once UIProvider has been re-rendered, it is displayed exactly when      *)
(* isLoading is true; on the other pages it is not displayed, whatever     *)
(* isLoading is.                                                           *)
C19_OverlayOnContextTest ==
    /\ route # "/contextTest" => ~overlayShown
    /\ (mounted /\ route = "/contextTest" /\ ~uiPending) => (overlayShown <=> isLoading)
    /\ ~mounted => ~overlayShown

(* A load was started on /contextTest and the user went to the home page:  *)
(* the flag is true and rendered, and no overlay is displayed.             *)
C19_Witness ==
    /\ route = "/"
    /\ isLoading
    /\ ~uiPending
    /\ uiContext.isLoading
    /\ loads # EmptyBag
    /\ ~overlayShown

-----------------------------------------------------------------------------
(* Notification store: what a removal takes and what the timers cover *)

(* The toasts of a list that have another id than the last call's. *)
Others(list) == SelectSeq(list, LAMBDA toast : toast.id # lastUI.id)

(* C22: a removal, by a dismiss button or by a timer, takes at most one    *)
(* toast out of the list, and the other toasts stay, each as it was and in *)
(* the order they were in.                                                 *)
C22_RemovesAtMostOne ==
    lastUI.op \in {"dismiss", "timer"} =>
        /\ Len(lastUI.before) - Len(toasts) <= 1
        /\ Others(toasts) = Others(lastUI.before)

(* A showToast call. *)
ShowStep == \E a \in ShowArgs : showToast(a[1], a[2])

(* C23: every toast in the list has a timer pending for its id; when from  *)
(* some time on showToast is not called, the list is empty from some time  *)
(* on.                                                                     *)
C23_TimersCoverToasts ==
    /\ [](\A i \in 1..Len(toasts) :
            \E t \in BagToSet(timers) : t.id = toasts[i].id)
    /\ <>[][~ShowStep]_vars => <>[](toasts = <<>>)

(* Three toasts shown and still in the list, the first two within one      *)
(* millisecond, and the clock at the time the first timers are due.        *)
C23_Witness ==
    /\ Len(toasts) = 3
    /\ toasts[1].id = toasts[2].id
    /\ toasts[3].id # toasts[1].id
    /\ BagCardinality(timers) = 3
    /\ now = toNumber(toasts[1].id) + ToastDelay
    /\ ~uiPending

-----------------------------------------------------------------------------
(* Session store: the first render, and calls one after the other *)

(* The entry of localStorage is the JSON text of a User. *)
SavedIdentity == Saved(localStorage).ok /\ IsUser(Saved(localStorage).val)

(* C21, as stated: while the page is open and the entry holds a User, the  *)
(* consumers read that user and isAuthenticated = true, from the first     *)
(* render on.                                                              *)
C21_NeverEmptyWhileSaved ==
    (mounted /\ SavedIdentity) =>
        /\ authContext.isAuthenticated
        /\ authContext.user = Saved(localStorage).val

(* C21, amended: the first render gives the consumers the null user; once  *)
(* the mount effect has run and AuthProvider has been re-rendered, they    *)
(* read the User the entry holds; no login or logout of this page load     *)
(* comes before the mount effect.                                          *)
C21_RestoredAfterFirstRender ==
    /\ (mounted /\ ~effectRan) =>
          /\ authContext = AuthValue(Null)
          /\ lastAuth.op = "none" \/ lastAuth.restarted
    /\ (Initialized /\ ~authPending /\ SavedIdentity) =>
          authContext = AuthValue(Saved(localStorage).val)

(* A page first loaded with a saved user, restored and rendered. *)
C21_Witness ==
    /\ Initialized
    /\ ~authPending
    /\ lastAuth = NoCall
    /\ localStorage = Item(JSONstringify(User(<<"1">>, <<"a">>, <<"b">>)))
    /\ authContext = AuthValue(User(<<"1">>, <<"a">>, <<"b">>))

(* C24: after login(u), whoever was logged in before, the user is u and    *)
(* the entry is the JSON text of u and of nobody else; after logout, also  *)
(* when the user was null already, the user is null and the entry is       *)
(* gone; the consumers read that once rendered.                            *)
C24_LastWriterWins ==
    /\ LoggedIn =>
          /\ user = lastAuth.arg
          /\ localStorage = Item(JSONstringify(lastAuth.arg))
          /\ \A u \in Users :
                (Saved(localStorage).val = u \/ user = u) => u = lastAuth.arg
          /\ ~authPending => authContext = AuthValue(lastAuth.arg)
    /\ (lastAuth.op = "logout" /\ ~lastAuth.restarted) =>
          /\ user = Null
          /\ localStorage = Absent
          /\ ~authPending => authContext = AuthValue(Null)

(* login of one user, then login of another. *)
C24_Witness ==
    /\ LoggedIn
    /\ lastAuth.before = User(<<"1">>, <<"a">>, <<"b">>)
    /\ lastAuth.arg = User(<<"2">>, <<"\"">>, <<"\\", "a">>)
    /\ user = lastAuth.arg
    /\ Saved(localStorage).val = lastAuth.arg

=============================================================================
